---------------------------- MODULE Spec2Model ----------------------------
(***************************************************************************)
(* A model of the Tello driver: the single-slot mailboxes (Command, State, *)
(* Video), the receive threads that feed them, Tello.__init__ and          *)
(* Tello.send_command, and the observer fan-out of TelloFramework.         *)
(* Strings are sequences of one-character strings.                         *)
(***************************************************************************)
EXTENDS Integers, Sequences, FiniteSets, TLC

(***************************************************************************)
(* Bounds of the model.                                                    *)
(***************************************************************************)
\* longest telemetry datagram enumerated character by character
MaxLen == 5
\* command_timeout, in clock ticks
CommandTimeout == 2
\* how far past the timeout the clock can run while a caller is waiting
MaxSlack == 1
\* datagrams transmitted by send_command in one run
MaxCmds == 3
\* frames the capture yields in one run
MaxFrames == 3
\* registrations the registry can hold
MaxObservers == 2
\* notify threads started in one run
MaxDispatched == 3

(***************************************************************************)
(* Python's None, and the exceptions the modelled code can raise.          *)
(***************************************************************************)
NoError == "NoError"
TimeoutError == "RuntimeError: No response to command"
HandshakeError == "RuntimeError: Tello rejected the attempt to enter command mode"
StreamError == "RuntimeError: Tello rejected to open the video stream"
VideoOpenError == "RuntimeError: Failed to connect to Tello"
VideoUnavailable == "RuntimeError: Video is not available"
KeyError == "KeyError"
AttributeError == "AttributeError"
ValueError == "ValueError"
UnicodeDecodeError == "UnicodeDecodeError"

(***************************************************************************)
(* Text.                                                                   *)
(***************************************************************************)
Digits == <<"0", "1", "2", "3", "4", "5", "6", "7", "8", "9">>

IsDigit(c) == \E i \in 1..10 : Digits[i] = c

DigitVal(c) == (CHOOSE i \in 1..10 : Digits[i] = c) - 1

Contains(s, c) == \E i \in 1..Len(s) : s[i] = c

\* index of the first c in s, or Len(s) + 1
IndexOf(s, c) ==
    IF Contains(s, c) THEN CHOOSE i \in 1..Len(s) : s[i] = c /\ \A j \in 1..(i - 1) : s[j] # c
    ELSE Len(s) + 1

\* str.split(sep) for a one-character sep: "a;b;" gives <<"a", "b", "">>
RECURSIVE Split(_, _)
Split(s, sep) ==
    IF ~Contains(s, sep) THEN <<s>>
    ELSE <<SubSeq(s, 1, IndexOf(s, sep) - 1)>>
         \o Split(SubSeq(s, IndexOf(s, sep) + 1, Len(s)), sep)

RECURSIVE DigitsVal(_)
DigitsVal(s) == IF s = <<>> THEN 0 ELSE 10 * DigitsVal(SubSeq(s, 1, Len(s) - 1)) + DigitVal(s[Len(s)])

RECURSIVE StripZeros(_)
StripZeros(s) ==
    IF s # <<>> /\ s[Len(s)] = "0" THEN StripZeros(SubSeq(s, 1, Len(s) - 1)) ELSE s

AllDigits(s) == \A i \in 1..Len(s) : IsDigit(s[i])

Unsigned(s) == IF s # <<>> /\ s[1] = "-" THEN Tail(s) ELSE s

\* whether float(s) succeeds: an optional sign, then digits with at most one
\* point and at least one digit (exponents, "inf", "nan", blanks and '+' are
\* outside the alphabets used here)
IsFloat(s) ==
    LET u == Unsigned(s)
        p == IndexOf(u, ".")
        ip == SubSeq(u, 1, p - 1)
        fp == SubSeq(u, p + 1, Len(u))
    IN  /\ AllDigits(ip)
        /\ AllDigits(fp)
        /\ Len(ip) + Len(fp) >= 1

\* float(s) as <<mantissa, number of fraction digits>>, trailing zeros of
\* the fraction removed, so that "1.0" and "1" are the same number
Float(s) ==
    LET u == Unsigned(s)
        p == IndexOf(u, ".")
        ip == SubSeq(u, 1, p - 1)
        fp == StripZeros(SubSeq(u, p + 1, Len(u)))
        m == DigitsVal(ip \o fp)
    IN  <<IF u # s THEN 0 - m ELSE m, Len(fp)>>


(***************************************************************************)
(* Datagrams.  A datagram is a sequence of bytes; BadByte stands for a     *)
(* byte that is not valid UTF-8.  bytes.decode('utf-8') maps the ASCII     *)
(* bytes used here to the same characters and raises on BadByte.           *)
(***************************************************************************)
BadByte == "0xFF"

Decodable(data) == \A i \in 1..Len(data) : data[i] # BadByte

\* None where a text is expected, and where a frame is expected
NoneText == <<"None">>
NoneFrame == -1

Ok == <<"o", "k">>
Err == <<"e", "r", "r", "o", "r">>

(***************************************************************************)
(* The command-ack mailbox: Command.                                       *)
(***************************************************************************)
\* a store that keeps the value already waiting (first value wins)
Command_recv_KeepFirst(response, data) ==
    IF ~Decodable(data) THEN [err |-> UnicodeDecodeError, response |-> response]
    ELSE [err |-> NoError, response |-> IF response = NoneText THEN data ELSE response]

\* Command.recv: the new value of self.response, or the exception raised
Command_recv(response, data) ==
    IF ~Decodable(data) THEN [err |-> UnicodeDecodeError, response |-> response]
    ELSE [err |-> NoError, response |-> data]

\* Command.pop: the value returned and the new value of self.response
\* a take that answers "error" when the mailbox is empty
Command_pop_ErrorIfEmpty(response) ==
    [ret |-> IF response = NoneText THEN Err ELSE response, response |-> NoneText]

Command_pop(response) == [ret |-> response, response |-> NoneText]

\* an emptiness test that never reports empty, as State.empty does
Command_empty_Never(response) == FALSE

\* Command.empty, lines 36-38
Command_empty(response) == response = NoneText

(***************************************************************************)
(* The telemetry mailbox: State.                                           *)
(***************************************************************************)
EmptyDict == [k \in {} |-> 0]

Item_key(item) == Split(item, ":")[1]

Item_value(item) == Split(item, ":")[2]

\* the items the comprehension keeps: those with ':' in them
KeptItems(text) == SelectSeq(Split(text, ";"), LAMBDA item : Contains(item, ":"))

\* the dict a comprehension over items builds: a later item's key replaces
\* an earlier one's
RECURSIVE DictOf(_)
DictOf(items) ==
    IF items = <<>> THEN EmptyDict
    ELSE LET n == Len(items)
             rest == DictOf(SubSeq(items, 1, n - 1))
             key == Item_key(items[n])
         IN  [k \in (DOMAIN rest) \cup {key} |->
                 IF k = key THEN Float(Item_value(items[n])) ELSE rest[k]]

\* a decode that raises on an item without ':' instead of dropping it
State_decode_Strict(data) ==
    IF ~Decodable(data) THEN [err |-> UnicodeDecodeError, response |-> EmptyDict]
    ELSE LET items == KeptItems(data)
         IN  IF \/ \E i \in 1..Len(items) : ~IsFloat(Item_value(items[i]))
                \/ Len(items) # Len(Split(data, ";"))
             THEN [err |-> ValueError, response |-> EmptyDict]
             ELSE [err |-> NoError, response |-> DictOf(items)]

\* the right-hand side of State.recv: the decoded dict, or the exception
State_decode(data) ==
    IF ~Decodable(data) THEN [err |-> UnicodeDecodeError, response |-> EmptyDict]
    ELSE LET items == KeptItems(data)
         IN  IF \E i \in 1..Len(items) : ~IsFloat(Item_value(items[i]))
             THEN [err |-> ValueError, response |-> EmptyDict]
             ELSE [err |-> NoError, response |-> DictOf(items)]

\* a store that adds the datagram's keys to the snapshot it had
State_recv_Merge(response, data) ==
    LET d == State_decode(data)
    IN  [err |-> d.err,
         response |-> IF d.err # NoError THEN response
                      ELSE [k \in (DOMAIN response) \cup (DOMAIN d.response) |->
                               IF k \in DOMAIN d.response THEN d.response[k]
                               ELSE response[k]]]

\* State.recv: self.response is assigned only when the decode raised nothing
State_recv(response, data) ==
    LET d == State_decode(data)
    IN  [err |-> d.err, response |-> IF d.err = NoError THEN d.response ELSE response]

\* a read that clears the snapshot, as the other mailboxes' pop does
State_pop_Clear(response) == [ret |-> response, response |-> EmptyDict]

\* State.pop: returns self.response and leaves it in place
State_pop(response) == [ret |-> response, response |-> response]

State_empty(response) == FALSE

(***************************************************************************)
(* The video mailbox: Video.                                               *)
(***************************************************************************)
\* Video._update_thread, lines 109-112: a frame read with ok replaces self.frame
Video_update(frame, ok, new) == IF ok THEN new ELSE frame

Video_empty(frame) == frame = NoneFrame

\* a take that returns the frame and leaves it in the slot
Video_pop_Keep(frame) == [ret |-> frame, frame |-> frame]

\* Video.pop, lines 118-121
Video_pop(frame) == [ret |-> frame, frame |-> NoneFrame]


(***************************************************************************)
(* The state.                                                              *)
(***************************************************************************)
VARIABLES
    cfg,            \* the object constructed and its arguments: kind, state, video
    ipc,            \* the position of the constructor (__init__)
    init_error,     \* the exception that ended the constructor, or NoError
    alive,          \* the background threads that are running
    response,       \* Command.response of response_client
    state_client,   \* Tello.state_client: "unset", "None" or "Client"
    state_response, \* State.response of state_client
    video_client,   \* Tello.video_client: "unset", "None" or "Video"
    frame,          \* Video.frame of video_client
    sent,           \* the command datagrams passed to sendto, in order
    outstanding,    \* indexes of sent the device has not answered yet
    pc,             \* per calling thread: its position in send_command / read_frame
    elapsed,        \* per calling thread: time.time() - st while it waits for a reply
    result,         \* per calling thread: what its last finished call returned or raised
    observers,      \* Subject.observers, when the attribute exists
    has_observers,  \* whether self.observers has been assigned
    dispatched,     \* the notify threads started by notify_observes, in order
    registered,     \* the keys under which a register_observer call has succeeded
    bus_result,     \* the outcome of the last such call
    ppc,            \* the frame pump's position in _send_video_frame
    id,             \* the frame pump's local id
    pframe,         \* the frame the pump's read_frame returned
    taken,          \* how many frames the pump has taken from the VideoBuffer
    nframes,        \* frames the capture has yielded
    last_decoded,   \* the last telemetry datagram whose decode raised nothing
    cmd_pending,    \* the last reply stored and not taken since, or NoneText
    video_pending,  \* the last frame stored and not taken since, or NoneFrame
    last_data,      \* the last telemetry datagram the listener received
    empty_at_send,  \* per calling thread: Command.response was None when it transmitted
    stored_since,   \* per calling thread: a reply was stored since it transmitted
    log,            \* the constructor's sends, returns and thread starts, in order
    published,      \* the values of the pump's notify_observes calls that returned
    lock,           \* per mailbox: the thread inside a "with self.lock" block, or "free"
    inop            \* the mailbox operations that have started and not finished

vars == <<cfg, ipc, init_error, alive, response, state_client, state_response,
          video_client, frame, sent, outstanding, pc, elapsed, result, observers,
          has_observers, dispatched, registered, bus_result, ppc, id, pframe, taken,
          nframes, last_decoded, cmd_pending, video_pending, last_data,
          empty_at_send, stored_since, log, published, lock, inop>>

Callers == {"c1", "c2"}

\* the thread that runs the constructor
Main == "c1"

Kinds == {"Subject", "Tello", "TelloFramework"}

Listeners == {"response", "state", "video"}

\* what the device can answer to a command
Replies == {Ok, Err, <<BadByte>>}

NoResult == [op |-> "none", with_return |-> FALSE, err |-> NoError, val |-> NoneText]

NoData == <<"no datagram">>

NoBusResult == [op |-> "none", key |-> "", err |-> NoError, known |-> FALSE, n |-> 0]


\* the three mailboxes and their operations (Video's store is the
\* assignment of _update_thread)
Boxes == {"Command", "State", "Video"}

Ops == {"recv", "pop", "empty"}

Idle(t) == pc[t] = "idle"

Ready == ipc = "ready"

HasTello == cfg.kind \in {"Tello", "TelloFramework"}

busVars == <<observers, has_observers, dispatched, registered, bus_result>>
pumpVars == <<ppc, id, pframe, taken, published>>
videoVars == <<video_client, frame, nframes, video_pending>>
stateVars == <<state_client, state_response, last_decoded, last_data>>
cmdVars == <<response, sent, outstanding, cmd_pending>>
callVars == <<pc, elapsed, result, empty_at_send, stored_since>>
lockVars == <<lock, inop>>
cfgVars == <<cfg, lockVars>>
initVars == <<cfgVars, ipc, init_error, log>>

(***************************************************************************)
(* Init: nothing has run but the first line of the constructor.  A bare    *)
(* Subject() has run Subject.__init__; TelloFramework.__init__ does not    *)
(* call it, so a TelloFramework starts without the observers attribute.    *)
(***************************************************************************)
InitWith(c) ==
    /\ cfg = c
    /\ ipc = IF c.kind \in {"Subject", "StateClient"} THEN "ready" ELSE "Client_response"
    /\ init_error = NoError
    /\ alive = IF c.kind = "StateClient" THEN {"state"} ELSE {}
    /\ response = NoneText
    /\ state_client = IF c.kind = "StateClient" THEN "Client" ELSE "unset"
    /\ state_response = EmptyDict
    /\ video_client = "unset"
    /\ frame = NoneFrame
    /\ sent = <<>>
    /\ outstanding = {}
    /\ pc = [t \in Callers |-> "idle"]
    /\ elapsed = [t \in Callers |-> 0]
    /\ result = [t \in Callers |-> NoResult]
    /\ observers = EmptyDict
    /\ has_observers = (c.kind = "Subject")
    /\ dispatched = <<>>
    /\ registered = {}
    /\ bus_result = NoBusResult
    /\ ppc = "off"
    /\ id = -1
    /\ pframe = NoneFrame
    /\ taken = 0
    /\ nframes = 0
    /\ last_decoded = NoData
    /\ cmd_pending = NoneText
    /\ video_pending = NoneFrame
    /\ last_data = NoData
    /\ empty_at_send = [t \in Callers |-> TRUE]
    /\ stored_since = [t \in Callers |-> FALSE]
    /\ log = <<>>
    /\ published = <<>>
    /\ lock = [b \in Boxes |-> "free"]
    /\ inop = {}

\* a Tello or a TelloFramework with any state / video arguments, or a Subject
Configs ==
    {c \in [kind : Kinds, state : BOOLEAN, video : BOOLEAN] :
        c.kind = "Subject" => c.state /\ c.video}

Init == \E c \in Configs : InitWith(c)

(***************************************************************************)
(* Tello.send_command.                                                     *)
(***************************************************************************)
InSend(t) == pc[t] \in {"sc_empty", "sc_time", "sc_pop"}

\* a constructor that goes on whatever the device replied
AfterSend_AnyReply(t, res) ==
    IF t = Main /\ ipc = "in_enter_command_mode" THEN
        IF res.err # NoError THEN [ipc |-> "failed", err |-> res.err]
        ELSE [ipc |-> "video_client", err |-> NoError]
    ELSE IF t = Main /\ ipc = "in_open_video_stream" THEN
        IF res.err # NoError THEN [ipc |-> "failed", err |-> res.err]
        ELSE [ipc |-> "Video", err |-> NoError]
    ELSE [ipc |-> ipc, err |-> init_error]

\* what the constructor does with the outcome of the send_command it is in:
\* enter_command_mode (lines 185-187) and open_video_stream (lines 201-203)
AfterSend(t, res) ==
    IF t = Main /\ ipc = "in_enter_command_mode" THEN
        IF res.err # NoError THEN [ipc |-> "failed", err |-> res.err]
        ELSE IF res.val # Ok THEN [ipc |-> "failed", err |-> HandshakeError]
        ELSE [ipc |-> "video_client", err |-> NoError]
    ELSE IF t = Main /\ ipc = "in_open_video_stream" THEN
        IF res.err # NoError THEN [ipc |-> "failed", err |-> res.err]
        ELSE IF res.val # Ok THEN [ipc |-> "failed", err |-> StreamError]
        ELSE [ipc |-> "Video", err |-> NoError]
    ELSE [ipc |-> ipc, err |-> init_error]

\* the call of thread t ends with res
Finish(t, res) ==
    /\ pc' = [pc EXCEPT ![t] = "idle"]
    /\ elapsed' = [elapsed EXCEPT ![t] = 0]
    /\ result' = [result EXCEPT ![t] = res]
    /\ empty_at_send' = [empty_at_send EXCEPT ![t] = TRUE]
    /\ stored_since' = [stored_since EXCEPT ![t] = FALSE]
    /\ ipc' = AfterSend(t, res).ipc
    /\ init_error' = AfterSend(t, res).err
    /\ log' = IF t = Main /\ ipc \in {"in_enter_command_mode", "in_open_video_stream"}
              THEN Append(log, [ev |-> "return", what |-> sent[Len(sent)],
                                err |-> res.err, val |-> res.val])
              ELSE log
    /\ UNCHANGED cfgVars

\* a timeout test that fires only once the timeout has been exceeded
TimedOut_Strict(e) == e > CommandTimeout

\* line 171: time.time() - st >= self.command_timeout
TimedOut(e) == e >= CommandTimeout

\* a fire-and-forget send that still takes from the mailbox
NoReturnTake_Pop(r) == Command_pop(r)

\* lines 166-167: with_return false returns without touching the mailbox
NoReturnTake(r) == [ret |-> NoneText, response |-> r]

LogEntry(ev, what, err, val) == [ev |-> ev, what |-> what, err |-> err, val |-> val]

\* a send that empties the mailbox before it transmits
send_command_Clear(t, cmd, wr) ==
    /\ Idle(t)
    /\ Len(sent) < MaxCmds
    /\ sent' = Append(sent, cmd)
    /\ outstanding' = outstanding \cup {Len(sent) + 1}
    /\ log' = IF t = Main /\ ~Ready
              THEN Append(log, LogEntry("sendto", cmd, NoError, NoneText)) ELSE log
    /\ response' = NoneText
    /\ cmd_pending' = NoneText
    /\ IF wr
       THEN /\ pc' = [pc EXCEPT ![t] = "sc_empty"]
            /\ elapsed' = [elapsed EXCEPT ![t] = 0]
            /\ empty_at_send' = [empty_at_send EXCEPT ![t] = TRUE]
            /\ stored_since' = [stored_since EXCEPT ![t] = FALSE]
            /\ UNCHANGED result
       ELSE /\ result' = [result EXCEPT ![t] =
                   [op |-> "send_command", with_return |-> FALSE, err |-> NoError,
                    val |-> NoneText]]
            /\ UNCHANGED <<pc, elapsed, empty_at_send, stored_since>>
    /\ UNCHANGED <<cfgVars, init_error, alive, stateVars, videoVars, busVars, pumpVars>>

\* lines 164-169: sendto, then either return or read the clock into st.
\* The datagram leaves and the clock is read in one step: st is the moment
\* of transmission.
send_command(t, cmd, wr) ==
    /\ Idle(t)
    /\ Len(sent) < MaxCmds
    /\ sent' = Append(sent, cmd)
    /\ outstanding' = outstanding \cup {Len(sent) + 1}
    /\ log' = IF t = Main /\ ~Ready
              THEN Append(log, LogEntry("sendto", cmd, NoError, NoneText)) ELSE log
    /\ IF wr
       THEN /\ pc' = [pc EXCEPT ![t] = "sc_empty"]
            /\ elapsed' = [elapsed EXCEPT ![t] = 0]
            /\ empty_at_send' = [empty_at_send EXCEPT ![t] = Command_empty(response)]
            /\ stored_since' = [stored_since EXCEPT ![t] = FALSE]
            /\ UNCHANGED <<result, response>>
       ELSE /\ response' = NoReturnTake(response).response
            /\ result' = [result EXCEPT ![t] =
                   [op |-> "send_command", with_return |-> FALSE, err |-> NoError,
                    val |-> NoReturnTake(response).ret]]
            /\ UNCHANGED <<pc, elapsed, empty_at_send, stored_since>>
    /\ UNCHANGED <<cfgVars, init_error, alive, cmd_pending, stateVars, videoVars, busVars,
                   pumpVars>>

\* line 170: while self.response_client.empty()
ScEmpty(t) ==
    /\ pc[t] = "sc_empty"
    /\ pc' = [pc EXCEPT ![t] = IF Command_empty(response) THEN "sc_time" ELSE "sc_pop"]
    /\ UNCHANGED <<initVars, alive, cmdVars, stateVars, videoVars, elapsed, result,
                   empty_at_send, stored_since, busVars, pumpVars>>

\* lines 171-172: the timeout test inside the loop
ScTime(t) ==
    /\ pc[t] = "sc_time"
    /\ IF TimedOut(elapsed[t])
       THEN Finish(t, [op |-> "send_command", with_return |-> TRUE, err |-> TimeoutError,
                       val |-> NoneText])
       ELSE /\ pc' = [pc EXCEPT ![t] = "sc_empty"]
            /\ UNCHANGED <<initVars, elapsed, result, empty_at_send, stored_since>>
    /\ UNCHANGED <<alive, cmdVars, stateVars, videoVars, busVars, pumpVars>>

\* line 173: return self.response_client.pop()
ScPop(t) ==
    /\ pc[t] = "sc_pop"
    /\ response' = Command_pop(response).response
    /\ cmd_pending' = NoneText
    /\ Finish(t, [op |-> "send_command", with_return |-> TRUE, err |-> NoError,
                  val |-> Command_pop(response).ret])
    /\ UNCHANGED <<alive, sent, outstanding, stateVars, videoVars, busVars, pumpVars>>

\* the clock advances while some thread waits in send_command
Tick ==
    /\ \E t \in Callers : InSend(t) /\ elapsed[t] < CommandTimeout + MaxSlack
    /\ elapsed' = [t \in Callers |->
           IF InSend(t) /\ elapsed[t] < CommandTimeout + MaxSlack
           THEN elapsed[t] + 1 ELSE elapsed[t]]
    /\ UNCHANGED <<initVars, alive, cmdVars, stateVars, videoVars, pc, result,
                   empty_at_send, stored_since, busVars, pumpVars>>

(***************************************************************************)
(* Client._receive_thread of response_client, with the device.             *)
(***************************************************************************)
\* a listener that drops a reply nobody is waiting for
ResponseReceive_DropLate ==
    \E i \in outstanding, data \in Replies :
        /\ "response" \in alive
        /\ outstanding' = outstanding \ {i}
        /\ response' = IF \E t \in Callers : InSend(t)
                       THEN Command_recv(response, data).response ELSE response
        /\ cmd_pending' = IF Decodable(data) /\ \E t \in Callers : InSend(t)
                          THEN data ELSE cmd_pending
        /\ stored_since' = [t \in Callers |->
               IF InSend(t) /\ Decodable(data) THEN TRUE ELSE stored_since[t]]
        /\ alive' = IF Command_recv(response, data).err = NoError
                    THEN alive ELSE alive \ {"response"}
        /\ UNCHANGED <<initVars, sent, stateVars, videoVars, pc, elapsed, result,
                       empty_at_send, busVars, pumpVars>>

\* lines 79-84 with Command.recv: the device answers a command it was sent;
\* the thread stores the datagram, or stops on the exception recv raised
ResponseReceive ==
    \E i \in outstanding, data \in Replies :
        /\ "response" \in alive
        /\ outstanding' = outstanding \ {i}
        /\ response' = Command_recv(response, data).response
        /\ cmd_pending' = IF Decodable(data) THEN data ELSE cmd_pending
        /\ stored_since' = [t \in Callers |->
               IF InSend(t) /\ Decodable(data) THEN TRUE ELSE stored_since[t]]
        /\ alive' = IF Command_recv(response, data).err = NoError
                    THEN alive ELSE alive \ {"response"}
        /\ UNCHANGED <<initVars, sent, stateVars, videoVars, pc, elapsed, result,
                       empty_at_send, busVars, pumpVars>>

\* lines 80-84: socket.recv itself raises; the thread prints and stops
SocketError ==
    \E l \in alive \cap {"response", "state"} :
        /\ alive' = alive \ {l}
        /\ UNCHANGED <<initVars, cmdVars, stateVars, videoVars, callVars, busVars,
                       pumpVars>>

(***************************************************************************)
(* Tello.__init__ and TelloFramework.__init__, run by Main.                *)
(***************************************************************************)
\* line 139: Client(local_port, 1024, True, Command()) starts its thread
ClientResponse ==
    /\ ipc = "Client_response"
    /\ ipc' = "Client_state"
    /\ alive' = alive \cup {"response"}
    /\ log' = Append(log, LogEntry("start", "response", NoError, NoneText))
    /\ UNCHANGED <<cfgVars, init_error, cmdVars, stateVars, videoVars, callVars, busVars,
                   pumpVars>>

\* line 140: the telemetry Client, if state
ClientState ==
    /\ ipc = "Client_state"
    /\ ipc' = "enter_command_mode"
    /\ state_client' = IF cfg.state THEN "Client" ELSE "None"
    /\ alive' = IF cfg.state THEN alive \cup {"state"} ELSE alive
    /\ log' = IF cfg.state
              THEN Append(log, LogEntry("start", "state", NoError, NoneText)) ELSE log
    /\ UNCHANGED <<cfgVars, init_error, cmdVars, state_response, last_decoded, last_data,
                   videoVars, callVars, busVars, pumpVars>>

\* line 143 with line 186: send_command('command')
EnterCommandMode ==
    /\ ipc = "enter_command_mode"
    /\ ipc' = "in_enter_command_mode"
    /\ send_command(Main, "command", TRUE)

\* lines 144-145
SetVideoClient ==
    /\ ipc = "video_client"
    /\ video_client' = "None"
    /\ ipc' = IF cfg.video THEN "open_video_stream" ELSE "ready"
    /\ UNCHANGED <<cfgVars, init_error, log, alive, cmdVars, stateVars, frame, nframes,
                   video_pending, callVars, busVars, pumpVars>>

\* line 146 with line 202: send_command('streamon')
OpenVideoStream ==
    /\ ipc = "open_video_stream"
    /\ ipc' = "in_open_video_stream"
    /\ send_command(Main, "streamon", TRUE)

\* line 147 with lines 94-102: Video(True) raises unless the capture opened,
\* and starts its thread otherwise; TelloFramework.__init__ goes on to line 31
VideoInit ==
    \E opened \in BOOLEAN :
        /\ ipc = "Video"
        /\ IF opened
           THEN /\ video_client' = "Video"
                /\ frame' = NoneFrame
                /\ alive' = alive \cup {"video"}
                /\ log' = Append(log, LogEntry("start", "video", NoError, NoneText))
                /\ ipc' = IF cfg.kind = "TelloFramework" THEN "video_thread" ELSE "ready"
                /\ UNCHANGED init_error
           ELSE /\ ipc' = "failed"
                /\ init_error' = VideoOpenError
                /\ UNCHANGED <<video_client, frame, alive, log>>
        /\ UNCHANGED <<cfgVars, cmdVars, stateVars, nframes, video_pending, callVars, busVars,
                       pumpVars>>

\* TelloFramework.__init__, lines 31-34, and line 37 of the thread it starts
StartPump ==
    /\ ipc = "video_thread"
    /\ ipc' = "ready"
    /\ alive' = alive \cup {"pump"}
    /\ log' = Append(log, LogEntry("start", "pump", NoError, NoneText))
    /\ ppc' = "rf_empty"
    /\ id' = -1
    /\ UNCHANGED <<cfgVars, init_error, cmdVars, stateVars, videoVars, callVars, busVars,
                   pframe, taken, published>>

(***************************************************************************)
(* The calls a thread makes on a constructed Tello.                        *)
(***************************************************************************)
\* take_off() and the like wait for the reply; move_up(x) and the like do not
ApiSend(t, wr) ==
    /\ Ready
    /\ HasTello
    /\ send_command(t, IF wr THEN "takeoff" ELSE "up", wr)
    /\ UNCHANGED ipc

(***************************************************************************)
(* Telemetry: Client._receive_thread of state_client, and Tello.state.     *)
(***************************************************************************)
\* lines 79-84 with State.recv: a datagram of D arrives; the thread stores
\* its decode, or stops on the exception the decode raised
StateReceive(D) ==
    \E data \in D :
        /\ "state" \in alive
        /\ last_data' = data
        /\ state_response' = State_recv(state_response, data).response
        /\ last_decoded' = IF State_decode(data).err = NoError THEN data ELSE last_decoded
        /\ alive' = IF State_recv(state_response, data).err = NoError
                    THEN alive ELSE alive \ {"state"}
        /\ UNCHANGED <<initVars, cmdVars, state_client, videoVars, callVars,
                       busVars, pumpVars>>

\* Tello.state, lines 175-176: what it returns, and State.response afterwards
Tello_state(client, resp) ==
    IF client = "Client"
    THEN [err |-> NoError, isnone |-> FALSE, val |-> State_pop(resp).ret,
          response |-> State_pop(resp).response]
    ELSE [err |-> NoError, isnone |-> TRUE, val |-> EmptyDict, response |-> resp]

StateRead(t) ==
    /\ Ready
    /\ HasTello
    /\ Idle(t)
    /\ result' = [result EXCEPT ![t] =
           [op |-> "state",
            err |-> Tello_state(state_client, state_response).err,
            isnone |-> Tello_state(state_client, state_response).isnone,
            val |-> Tello_state(state_client, state_response).val]]
    /\ state_response' = Tello_state(state_client, state_response).response
    /\ UNCHANGED <<initVars, alive, cmdVars, state_client, last_decoded, last_data,
                   videoVars, pc, elapsed, empty_at_send, stored_since, busVars, pumpVars>>


(***************************************************************************)
(* Video: Video._update_thread and Tello.read_frame.                       *)
(***************************************************************************)
\* lines 108-112: one turn of the capture loop; frames are numbered as read
VideoUpdate ==
    \E ok \in BOOLEAN :
        /\ "video" \in alive
        /\ nframes < MaxFrames
        /\ frame' = Video_update(frame, ok, nframes)
        /\ nframes' = IF ok THEN nframes + 1 ELSE nframes
        /\ video_pending' = IF ok THEN nframes ELSE video_pending
        /\ UNCHANGED <<initVars, alive, cmdVars, stateVars, video_client,
                       callVars, busVars, pumpVars>>

\* a frame read that returns None when there is no video client
read_frame_ReturnNone(client) == NoError

\* lines 179-180: the exception read_frame raises for this video_client
read_frame_check(client) == IF client = "None" THEN VideoUnavailable ELSE NoError

\* lines 179-181: read_frame up to the loop
ReadFrame(t) ==
    /\ Ready
    /\ HasTello
    /\ Idle(t)
    /\ IF video_client = "Video"
       THEN /\ pc' = [pc EXCEPT ![t] = "rf_empty"]
            /\ UNCHANGED result
       ELSE /\ result' = [result EXCEPT ![t] =
                   [op |-> "read_frame", err |-> read_frame_check(video_client),
                    val |-> NoneFrame]]
            /\ UNCHANGED pc
    /\ UNCHANGED <<initVars, alive, cmdVars, stateVars, videoVars, elapsed,
                   empty_at_send, stored_since, busVars, pumpVars>>

\* lines 181-182: the loop ends once the slot is seen to hold a frame
RfEmpty(t) ==
    /\ pc[t] = "rf_empty"
    /\ ~Video_empty(frame)
    /\ pc' = [pc EXCEPT ![t] = "rf_pop"]
    /\ UNCHANGED <<initVars, alive, cmdVars, stateVars, videoVars, elapsed,
                   result, empty_at_send, stored_since, busVars, pumpVars>>

\* line 183: return self.video_client.pop()
RfPop(t) ==
    /\ pc[t] = "rf_pop"
    /\ frame' = Video_pop(frame).frame
    /\ video_pending' = NoneFrame
    /\ pc' = [pc EXCEPT ![t] = "idle"]
    /\ result' = [result EXCEPT ![t] =
           [op |-> "read_frame", err |-> NoError, val |-> Video_pop(frame).ret]]
    /\ UNCHANGED <<initVars, alive, cmdVars, stateVars, video_client, nframes,
                   elapsed, empty_at_send, stored_since, busVars, pumpVars>>

(***************************************************************************)
(* The mailboxes' locks.  The actions above take each mailbox operation as *)
(* one step; the two below follow an operation from the moment its thread  *)
(* enters it to the moment it leaves, on a constructed session at rest,    *)
(* and move no value.                                                      *)
(***************************************************************************)
\* a mailbox none of whose operations takes the lock
WithLock_Never(box, op) == FALSE

\* whether the operation's body is inside "with self.lock": Command lines
\* 28, 32, 37; State line 48 but not lines 51-55; Video lines 111, 115, 119
WithLock(box, op) == ~(box = "State" /\ op \in {"pop", "empty"})

\* the thread that stores into the mailbox
Storer(box) ==
    IF box = "Command" THEN "response" ELSE IF box = "State" THEN "state" ELSE "video"

\* the mailbox exists on this session
HasBox(box) ==
    /\ Ready
    /\ HasTello
    /\ box = "State" => state_client = "Client"
    /\ box = "Video" => video_client = "Video"

OpRecord(th, box, op) == [th |-> th, box |-> box, op |-> op]

\* thread th enters an operation, acquiring the lock if the operation has one
OpBegin ==
    \E th \in Callers \cup Listeners, box \in Boxes, op \in Ops :
        /\ HasBox(box)
        /\ IF op = "recv" THEN th = Storer(box) /\ th \in alive
                          ELSE th \in Callers /\ Idle(th)
        /\ \A r \in inop : r.th # th
        /\ WithLock(box, op) => lock[box] = "free"
        /\ lock' = IF WithLock(box, op) THEN [lock EXCEPT ![box] = th] ELSE lock
        /\ inop' = inop \cup {OpRecord(th, box, op)}
        /\ UNCHANGED <<cfg, ipc, init_error, log, alive, cmdVars, stateVars, videoVars,
                       callVars, busVars, pumpVars>>

\* a thread leaves its operation, releasing the lock if it holds it
OpEnd ==
    \E r \in inop :
        /\ lock' = IF lock[r.box] = r.th THEN [lock EXCEPT ![r.box] = "free"] ELSE lock
        /\ inop' = inop \ {r}
        /\ UNCHANGED <<cfg, ipc, init_error, log, alive, cmdVars, stateVars, videoVars,
                       callVars, busVars, pumpVars>>

(***************************************************************************)
(* Subject: the observer registry.                                         *)
(***************************************************************************)
Keys == {"frame", "other"}

ObserverIds == {"o1", "o2"}

\* Subject.register_observer, lines 10-13: the new registry, or the exception
register_observer(has, obs, key, observer) ==
    IF ~has THEN [err |-> AttributeError, observers |-> obs]
    ELSE [err |-> NoError,
          observers |-> [k \in (DOMAIN obs) \cup {key} |->
              IF k = key
              THEN (IF k \in DOMAIN obs THEN Append(obs[k], observer) ELSE <<observer>>)
              ELSE obs[k]]]

\* a thread running observer.notify(key, value), as Thread.start() leaves it
NotifyThread(observer, key, value) ==
    [observer |-> observer, key |-> key, value |-> value, st |-> "running"]

\* a publish that notifies the first observer of the key only
notify_observes_First(has, obs, key, value) ==
    IF ~has THEN [err |-> AttributeError, threads |-> <<>>]
    ELSE IF key \notin DOMAIN obs THEN [err |-> KeyError, threads |-> <<>>]
    ELSE [err |-> NoError, threads |-> <<NotifyThread(obs[key][1], key, value)>>]

\* Subject.notify_observes, lines 15-17: the threads it starts, or the
\* exception self.observers[key] raises
notify_observes(has, obs, key, value) ==
    IF ~has THEN [err |-> AttributeError, threads |-> <<>>]
    ELSE IF key \notin DOMAIN obs THEN [err |-> KeyError, threads |-> <<>>]
    ELSE [err |-> NoError,
          threads |-> [i \in 1..Len(obs[key]) |-> NotifyThread(obs[key][i], key, value)]]

HasSubject == cfg.kind \in {"Subject", "TelloFramework"}

RECURSIVE SumLen(_, _)
SumLen(obs, keys) ==
    IF keys = {} THEN 0
    ELSE LET k == CHOOSE k \in keys : TRUE
         IN  Len(obs[k]) + SumLen(obs, keys \ {k})

\* how many registrations the registry holds
Registrations == SumLen(observers, DOMAIN observers)

\* a caller registers an observer
Register ==
    \E key \in Keys, observer \in ObserverIds :
        /\ Ready
        /\ HasSubject
        /\ Registrations < MaxObservers
        /\ observers' = register_observer(has_observers, observers, key, observer).observers
        /\ registered' =
               IF register_observer(has_observers, observers, key, observer).err = NoError
               THEN registered \cup {key} ELSE registered
        /\ bus_result' =
               [op |-> "register", key |-> key,
                err |-> register_observer(has_observers, observers, key, observer).err,
                known |-> key \in registered, n |-> 0]
        /\ UNCHANGED <<initVars, alive, cmdVars, stateVars, videoVars, callVars,
                       has_observers, dispatched, pumpVars>>

\* a caller publishes a value
Notify ==
    \E key \in Keys :
        /\ Ready
        /\ HasSubject
        /\ Len(dispatched) < MaxDispatched
        /\ dispatched' =
               dispatched \o notify_observes(has_observers, observers, key, <<"v">>).threads
        /\ bus_result' =
               [op |-> "notify", key |-> key,
                err |-> notify_observes(has_observers, observers, key, <<"v">>).err,
                known |-> key \in registered,
                n |-> Len(notify_observes(has_observers, observers, key, <<"v">>).threads)]
        /\ UNCHANGED <<initVars, alive, cmdVars, stateVars, videoVars, callVars,
                       observers, has_observers, registered, pumpVars>>

\* a notify thread started at line 17 ends: observer.notify returns or
\* raises inside its own thread (a thread may also never end)
NotifyEnds ==
    \E i \in 1..Len(dispatched), how \in {"returned", "raised"} :
        /\ dispatched[i].st = "running"
        /\ dispatched' = [dispatched EXCEPT ![i].st = how]
        /\ UNCHANGED <<initVars, alive, cmdVars, stateVars, videoVars, callVars,
                       observers, has_observers, registered, bus_result, pumpVars>>

(***************************************************************************)
(* The frame pump: TelloFramework._send_video_frame.                       *)
(***************************************************************************)
\* line 39, inside read_frame (lines 181-182): wait for a frame
PumpEmpty ==
    /\ ppc = "rf_empty"
    /\ ~Video_empty(frame)
    /\ ppc' = "rf_pop"
    /\ UNCHANGED <<initVars, alive, cmdVars, stateVars, videoVars, callVars,
                   busVars, id, pframe, taken, published>>

\* line 39: read_frame returns (line 183) and id, frame are assigned
PumpPop ==
    /\ ppc = "rf_pop"
    /\ frame' = Video_pop(frame).frame
    /\ video_pending' = NoneFrame
    /\ pframe' = Video_pop(frame).ret
    /\ id' = id + 1
    /\ taken' = taken + 1
    /\ ppc' = "notify"
    /\ UNCHANGED <<initVars, alive, cmdVars, stateVars, video_client, nframes,
                   callVars, busVars, published>>

\* line 40: notify_observes('frame', (id, frame)); an exception ends the thread
PumpNotify ==
    /\ ppc = "notify"
    /\ dispatched' =
           dispatched \o notify_observes(has_observers, observers, "frame", <<id, pframe>>).threads
    /\ bus_result' =
           [op |-> "pump", key |-> "frame",
            err |-> notify_observes(has_observers, observers, "frame", <<id, pframe>>).err,
            known |-> "frame" \in registered,
            n |-> Len(notify_observes(has_observers, observers, "frame", <<id, pframe>>).threads)]
    /\ IF notify_observes(has_observers, observers, "frame", <<id, pframe>>).err = NoError
       THEN /\ ppc' = "rf_empty"
            /\ published' = Append(published, <<id, pframe>>)
            /\ UNCHANGED alive
       ELSE /\ ppc' = "dead"
            /\ alive' = alive \ {"pump"}
            /\ UNCHANGED published
    /\ UNCHANGED <<initVars, cmdVars, stateVars, videoVars, callVars, observers,
                   has_observers, registered, id, pframe, taken>>

(***************************************************************************)
(* Specifications.  The command channel, the telemetry channel, the video  *)
(* buffer and the observer registry share no variable, so each is checked  *)
(* with the traffic of the others left out: a specification below is the   *)
(* session with its constructor, plus the threads and the environment of   *)
(* the parts it is about.                                                  *)
(***************************************************************************)
\* telemetry datagrams the session's listener is fed
SampleDatagrams ==
    { <<"a", ":", "1", ";", "b", ":", "2">>,
      <<"a", ":", "3", ";">>,
      <<"a", ":", "x">>,
      <<BadByte>> }

StateReceiveSample == StateReceive(SampleDatagrams)

\* Tello.__init__ / TelloFramework.__init__
Constructor ==
    \/ ClientResponse
    \/ ClientState
    \/ EnterCommandMode
    \/ SetVideoClient
    \/ OpenVideoStream
    \/ VideoInit
    \/ StartPump

\* a send_command in progress, the command-ack listener and the device
CommandWait ==
    \/ \E t \in Callers : ScEmpty(t)
    \/ \E t \in Callers : ScTime(t)
    \/ \E t \in Callers : ScPop(t)
    \/ Tick
    \/ ResponseReceive

\* the capture thread, read_frame and the frame pump
VideoChannel ==
    \/ VideoUpdate
    \/ \E t \in Callers : ReadFrame(t)
    \/ \E t \in Callers : RfEmpty(t)
    \/ \E t \in Callers : RfPop(t)
    \/ PumpEmpty
    \/ PumpPop
    \/ PumpNotify

\* the session and its command channel
Next ==
    \/ Constructor
    \/ \E t \in Callers, wr \in BOOLEAN : ApiSend(t, wr)
    \/ CommandWait
    \/ SocketError

Spec == Init /\ [][Next]_vars

\* the same with commands serialised: Main is the only calling thread
NextSerial ==
    \/ Constructor
    \/ \E wr \in BOOLEAN : ApiSend(Main, wr)
    \/ CommandWait
    \/ SocketError

SpecSerial == Init /\ [][NextSerial]_vars

\* the two take-and-clear mailboxes with every producer and consumer of them
NextMailbox ==
    \/ Constructor
    \/ \E t \in Callers, wr \in BOOLEAN : ApiSend(t, wr)
    \/ CommandWait
    \/ VideoChannel

\* sessions with the telemetry listener
InitState == Init /\ cfg.state

SpecMailbox == InitState /\ [][NextMailbox]_vars

\* the video buffer with its consumers: the frame pump alone on a
\* TelloFramework, the calling threads on a Tello
NextVideo ==
    \/ Constructor
    \/ CommandWait
    \/ VideoUpdate
    \/ \E t \in Callers : cfg.kind = "Tello" /\ ReadFrame(t)
    \/ \E t \in Callers : RfEmpty(t)
    \/ \E t \in Callers : RfPop(t)
    \/ PumpEmpty
    \/ PumpPop
    \/ PumpNotify

SpecVideo == Init /\ [][NextVideo]_vars

\* a constructed session and the extent in time of its mailbox operations
NextLock ==
    \/ Constructor
    \/ CommandWait
    \/ OpBegin
    \/ OpEnd

SpecLock == Init /\ [][NextLock]_vars

\* the observer registry, alone (a Subject) or fed by the frame pump
NextBus ==
    \/ Constructor
    \/ CommandWait
    \/ VideoChannel
    \/ Register
    \/ Notify
    \/ NotifyEnds

SpecBus == InitState /\ [][NextBus]_vars

\* the telemetry channel of a session, and the reads a caller can attempt
NextTelemetry ==
    \/ Constructor
    \/ CommandWait
    \/ SocketError
    \/ StateReceiveSample
    \/ \E t \in Callers : StateRead(t)
    \/ \E t \in Callers : ReadFrame(t)

SpecTelemetry == Init /\ [][NextTelemetry]_vars

(***************************************************************************)
(* The telemetry decode alone: a State mailbox behind its Client, fed one  *)
(* datagram.                                                               *)
(***************************************************************************)
DecodeChars == {"a", "1", "-", ".", ":", ";"}

\* "pitch:1.0;roll:-2.5;badtoken;yaw:3"
Example ==
    <<"p", "i", "t", "c", "h", ":", "1", ".", "0", ";",
      "r", "o", "l", "l", ":", "-", "2", ".", "5", ";",
      "b", "a", "d", "t", "o", "k", "e", "n", ";",
      "y", "a", "w", ":", "3">>

\* "a:1;a:-1.5;" : a key sent twice, and a trailing ';'
Repeated == <<"a", ":", "1", ";", "a", ":", "-", "1", ".", "5", ";">>

AllDatagrams ==
    UNION {[1..n -> DecodeChars] : n \in 0..MaxLen}
        \cup {Example, Repeated, <<"a", BadByte>>}

StateReceiveFirst ==
    /\ last_data = NoData
    /\ StateReceive(AllDatagrams)

InitDecode == InitWith([kind |-> "StateClient", state |-> TRUE, video |-> FALSE])

NextDecode == StateReceiveFirst

SpecDecode == InitDecode /\ [][NextDecode]_vars

(***************************************************************************)
(* Properties.                                                             *)
(***************************************************************************)
\* C1: on the command-ack and the video mailbox, every take (the pop of
\* send_command, of read_frame, of the frame pump) returns the value of the
\* most recent store no earlier take has consumed, or None when there is
\* none (so a take on an empty mailbox returns None), and leaves the
\* mailbox empty.
C1_TakeReturnsLatestUnconsumed ==
    [][ /\ \A t \in Callers :
              (pc[t] = "sc_pop" /\ pc'[t] = "idle") =>
                  /\ result'[t].val = cmd_pending
                  /\ Command_empty(response')
        /\ \A t \in Callers :
              (pc[t] = "rf_pop" /\ pc'[t] = "idle") =>
                  /\ result'[t].val = video_pending
                  /\ Video_empty(frame')
        /\ (ppc = "rf_pop" /\ ppc' = "notify") =>
                  /\ pframe' = video_pending
                  /\ Video_empty(frame')
      ]_vars

\* C1 witness: three replies were stored, only two takes were made (the
\* handshake's and this call's), the last take returned "error" and the
\* mailbox is empty: one reply was overwritten before it was taken.
C1_Witness ==
    /\ sent = <<"command", "up", "takeoff">>
    /\ outstanding = {}
    /\ "response" \in alive
    /\ result["c2"].op = "none"
    /\ result["c1"].op = "send_command"
    /\ result["c1"].with_return
    /\ result["c1"].val = Err
    /\ Command_empty(response)

\* C2 as stated: a waiting send_command during which no reply is stored
\* never comes to return a value (it can only fail with the timeout).
C2_NoStoreNoValue ==
    \A t \in Callers : pc[t] = "sc_pop" => stored_since[t]

\* C2, amended: a waiting send_command that found the mailbox empty when it
\* transmitted and during which no reply is stored ends only by raising the
\* timeout error, never by returning; the error is raised at a timeout check
\* made command_timeout or more after the transmission, and every timeout
\* check made that late raises it (so it comes at the first check after the
\* timeout has passed: no later than one poll step).
C2_TimeoutWhenEmptyAndNoStore ==
    [][ \A t \in Callers :
          /\ (InSend(t) /\ pc'[t] = "idle" /\ empty_at_send[t] /\ ~stored_since[t]) =>
                /\ pc[t] = "sc_time"
                /\ result'[t].err = TimeoutError
                /\ result'[t].val = NoneText
          /\ (pc[t] = "sc_time" /\ pc'[t] # "sc_time") =>
                /\ (pc'[t] = "idle") <=> (elapsed[t] >= CommandTimeout)
                /\ (pc'[t] = "idle") => result'[t].err = TimeoutError
      ]_vars

\* C2 witness: the reply to "takeoff" never came, the mailbox stayed empty
\* and the call ended with the timeout error.
C2_Witness ==
    /\ sent = <<"command", "takeoff">>
    /\ outstanding = {2}
    /\ Command_empty(response)
    /\ result["c2"].op = "send_command"
    /\ result["c2"].with_return
    /\ result["c2"].err = TimeoutError

\* the constructor's log holds entry e before position i
Before(e, i) == \E j \in 1..(i - 1) : log[j] = e

Returned(cmd, val) == LogEntry("return", cmd, NoError, val)

\* C3: once the device has replied something other than "ok" to "command",
\* construction has failed with the handshake-rejected error and no
\* listener thread is running.
C3_RejectedHandshakeStopsListeners ==
    (\E i \in 1..Len(log) :
        /\ log[i].ev = "return"
        /\ log[i].what = "command"
        /\ log[i].err = NoError
        /\ log[i].val # Ok)
    => /\ ipc = "failed"
       /\ init_error = HandshakeError
       /\ alive \cap Listeners = {}

\* C6: send_command(cmd, with_return=False) transmits and returns None in
\* the same step: no thread starts to wait, no error is raised and
\* Command.response is left as it was, whatever it holds.
C6_FireAndForgetLeavesMailbox ==
    [][ sent' = Append(sent, "up") =>
          /\ response' = response
          /\ pc' = pc
          /\ elapsed' = elapsed
          /\ \E t \in Callers :
                /\ result'[t] = [op |-> "send_command", with_return |-> FALSE,
                                 err |-> NoError, val |-> NoneText]
                /\ \A u \in Callers \ {t} : result'[u] = result[u]
      ]_vars

\* C6 witness: a fire-and-forget send has just returned None while the
\* mailbox holds an unconsumed "error" and nobody is waiting.
C6_Witness ==
    /\ Len(sent) = 3
    /\ sent[3] = "up"
    /\ outstanding = {3}
    /\ response = Err
    /\ \A t \in Callers : Idle(t)
    /\ result["c2"] = [op |-> "send_command", with_return |-> FALSE,
                       err |-> NoError, val |-> NoneText]

\* C10: with video enabled, "streamon" is sent only after "command" has
\* returned "ok", the Video capture thread is started only after "streamon"
\* has returned "ok", and once "streamon" has returned anything else or
\* failed, construction has failed and no video thread exists.
C10_StreamonAfterHandshake ==
    /\ \A i \in 1..Len(log) :
          (log[i].ev = "sendto" /\ log[i].what = "streamon") =>
              cfg.video /\ Before(Returned("command", Ok), i)
    /\ \A i \in 1..Len(log) :
          (log[i].ev = "start" /\ log[i].what \in {"video", "pump"}) =>
              Before(Returned("streamon", Ok), i)
    /\ \A i \in 1..Len(log) :
          (log[i].ev = "return" /\ log[i].what = "streamon" /\ log[i] # Returned("streamon", Ok)) =>
              /\ ipc = "failed"
              /\ init_error = IF log[i].err = NoError THEN StreamError ELSE log[i].err
              /\ video_client # "Video"
              /\ "video" \notin alive
    /\ ("video" \in alive \/ video_client = "Video") =>
          \E i \in 1..Len(log) : log[i].ev = "start" /\ log[i].what = "video"

\* C10 witness: "streamon" was answered "error" and construction failed.
C10_Witness ==
    /\ \E i \in 1..Len(log) : log[i] = Returned("streamon", Err)
    /\ ipc = "failed"
    /\ init_error = StreamError

\* C4: whenever the frame pump is not in the middle of a publish, it has
\* published one notification per frame it has taken from the Video buffer,
\* and the n-th of them carries sequence id n-1.
C4_OnePublishPerFrameTaken ==
    ppc # "notify" =>
        /\ Len(published) = taken
        /\ \A n \in 1..Len(published) : published[n][1] = n - 1

\* C5: notify_observes for a key under which nothing was ever registered
\* raises nothing and starts no notification thread.
C5_PublishToUnknownKeyIsNoOp ==
    (bus_result.op = "notify" /\ ~bus_result.known) =>
        /\ bus_result.err = NoError
        /\ bus_result.n = 0

Pitch == <<"p", "i", "t", "c", "h">>
Roll == <<"r", "o", "l", "l">>
Yaw == <<"y", "a", "w">>

\* {pitch: 1.0, roll: -2.5, yaw: 3.0}
ExampleSnapshot ==
    [k \in {Pitch, Roll, Yaw} |->
        IF k = Pitch THEN <<1, 0>> ELSE IF k = Roll THEN <<0 - 25, 1>> ELSE <<3, 0>>]

\* C7: after a decodable telemetry datagram, with tokens the pieces between
\* ';': the listener survives exactly when every token containing ':' has a
\* number between its first and its second ':' (a token without ':' never
\* ends it); the snapshot then has exactly the keys of the tokens containing
\* ':' (the text before the first ':'), each mapped to the number of the
\* last token with that key; and the example datagram gives
\* {pitch: 1.0, roll: -2.5, yaw: 3.0}.
C7_DecodeKeepsColonTokens ==
    (last_data # NoData /\ Decodable(last_data)) =>
        LET toks == Split(last_data, ";")
            kept == {i \in 1..Len(toks) : Contains(toks[i], ":")}
            Key(i) == SubSeq(toks[i], 1, IndexOf(toks[i], ":") - 1)
            Rest(i) == SubSeq(toks[i], IndexOf(toks[i], ":") + 1, Len(toks[i]))
            Val(i) == IF Contains(Rest(i), ":")
                      THEN SubSeq(Rest(i), 1, IndexOf(Rest(i), ":") - 1)
                      ELSE Rest(i)
            good == \A i \in kept : IsFloat(Val(i))
        IN  /\ ("state" \in alive) <=> good
            /\ good =>
                  /\ DOMAIN state_response = {Key(i) : i \in kept}
                  /\ \A i \in kept :
                        (\A j \in kept : j > i => Key(j) # Key(i)) =>
                            state_response[Key(i)] = Float(Val(i))
            /\ last_data = Example => state_response = ExampleSnapshot

\* C7 witness: the example datagram has been decoded into its snapshot.
C7_Witness ==
    /\ last_data = Example
    /\ "state" \in alive
    /\ state_response = ExampleSnapshot

\* the snapshot of the most recently decoded datagram
LatestSnapshot ==
    IF last_decoded = NoData THEN EmptyDict ELSE State_decode(last_decoded).response

\* C8: with the telemetry listener enabled, a telemetry read is one step
\* that returns the snapshot of the most recently decoded datagram (the
\* empty mapping before the first), raises nothing, leaves State.response
\* as it was and leaves the caller where it was; State.empty is false.
C8_StateReadPeeksLatest ==
    [][ \A t \in Callers :
          (result'[t] # result[t] /\ result'[t].op = "state" /\ state_client = "Client") =>
              /\ result'[t].err = NoError
              /\ ~result'[t].isnone
              /\ result'[t].val = LatestSnapshot
              /\ state_response' = state_response
              /\ pc' = pc
              /\ ~State_empty(state_response')
      ]_vars

\* C8 witness: two reads with no datagram in between have both returned the
\* same non-empty snapshot, which is still in place.
C8_Witness ==
    /\ \A t \in Callers : result[t].op = "state" /\ ~result[t].isnone
    /\ state_response # EmptyDict
    /\ \A t \in Callers : result[t].val = state_response

\* C9 as stated: a frame read with video=False and a telemetry read with
\* state=False both end in the unavailable error.
C9_ReadWithoutListenerRaises ==
    \A t \in Callers :
        /\ (result[t].op = "read_frame" /\ video_client = "None") =>
               result[t].err = VideoUnavailable
        /\ (result[t].op = "state" /\ state_client = "None") =>
               result[t].err = VideoUnavailable

\* C9 amended: a frame read with video=False raises the unavailable error
\* at the call, without entering the wait loop; a telemetry read with
\* state=False raises nothing and returns None.
C9_FrameReadRaisesStateReadReturnsNone ==
    \A t \in Callers :
        /\ (result[t].op = "read_frame" /\ video_client = "None") =>
               result[t].err = VideoUnavailable
        /\ video_client = "None" => pc[t] \notin {"rf_empty", "rf_pop"}
        /\ (result[t].op = "state" /\ state_client = "None") =>
               /\ result[t].err = NoError
               /\ result[t].isnone

\* C9 witness: on a session without listeners, one caller's frame read has
\* raised and the other's telemetry read has returned None.
C9_Witness ==
    /\ state_client = "None"
    /\ video_client = "None"
    /\ result["c1"].op = "read_frame"
    /\ result["c1"].err = VideoUnavailable
    /\ result["c2"].op = "state"
    /\ result["c2"].isnone

\* the notify threads a step has started
Started == SubSeq(dispatched', Len(dispatched) + 1, Len(dispatched'))

C12_RegisterOnSessionAppends ==
    (cfg.kind = "TelloFramework" /\ bus_result.op = "register") =>
        /\ bus_result.err = NoError
        /\ bus_result.key \in DOMAIN observers
        /\ observers[bus_result.key] # <<>>

\* C13: with a single calling thread, a send_command(with_return=True)
\* leaves its loop for the take exactly when its emptiness test sees a
\* value, however much time has passed; the take returns the value in the
\* mailbox, which is not None, raises nothing and leaves the mailbox empty.
C13_NonEmptyIsTakenAndReturned ==
    [][ \A t \in Callers :
          /\ (pc[t] = "sc_empty" /\ pc'[t] # "sc_empty") =>
                (pc'[t] = "sc_pop") <=> ~Command_empty(response)
          /\ (pc[t] = "sc_pop" /\ pc'[t] = "idle") =>
                /\ result'[t].op = "send_command"
                /\ result'[t].with_return
                /\ result'[t].err = NoError
                /\ result'[t].val = response
                /\ result'[t].val # NoneText
                /\ Command_empty(response')
      ]_vars

\* C13 witness: after the handshake, a second waiting send has returned
\* "error" and the mailbox is empty.
C13_Witness ==
    /\ sent = <<"command", "takeoff">>
    /\ outstanding = {}
    /\ Idle("c1")
    /\ result["c1"].op = "send_command"
    /\ result["c1"].with_return
    /\ result["c1"].err = NoError
    /\ result["c1"].val = Err
    /\ Command_empty(response)

\* C14: a send_command that ends with the timeout error changes nothing
\* but its own thread's position, clock and result (and the constructor's,
\* when the constructor made the call); a reply the listener receives is
\* stored whether or not a call is waiting for it; and the take of the next
\* waiting send returns the last reply stored and not yet taken.
C14_LateReplyServesNextSend ==
    [][ /\ \A t \in Callers :
              (pc[t] = "sc_time" /\ pc'[t] = "idle") =>
                  /\ result'[t].err = TimeoutError
                  /\ response' = response
                  /\ cmd_pending' = cmd_pending
                  /\ sent' = sent
                  /\ outstanding' = outstanding
                  /\ alive' = alive
                  /\ \A u \in Callers \ {t} : pc'[u] = pc[u] /\ result'[u] = result[u]
        /\ (outstanding' # outstanding /\ sent' = sent /\ "response" \in alive') =>
              /\ response' \in {Ok, Err}
              /\ cmd_pending' = response'
        /\ \A t \in Callers :
              (pc[t] = "sc_pop" /\ pc'[t] = "idle") => result'[t].val = cmd_pending
      ]_vars

\* C14 witness: Main's second command timed out, its reply came late, and
\* Main's third command has returned that reply while its own is still to
\* come.
C14_Witness ==
    /\ sent = <<"command", "takeoff", "takeoff">>
    /\ outstanding = {3}
    /\ Idle("c1")
    /\ result["c1"].op = "send_command"
    /\ result["c1"].with_return
    /\ result["c1"].err = NoError
    /\ result["c1"].val = Err

\* C15: whatever datagram the telemetry listener has received, it is
\* still running (its socket never fails in SpecDecode).
C15_ContentNeverStopsListener ==
    last_data # NoData => "state" \in alive

\* the frames (numbered as stored) that finished read_frame calls hold
Held(t) ==
    IF result[t].op = "read_frame" /\ result[t].err = NoError /\ result[t].val # NoneFrame
    THEN {result[t].val} ELSE {}

\* C16: a read_frame leaves its loop only when the slot holds a frame; its
\* take returns what the slot holds and leaves it empty; a frame it returns
\* is the last one stored (earlier ones stored since the previous read are
\* gone), no two reads return the same frame, and the take of the frame
\* pump, when it is the only consumer, is never None.
C16_ReadReturnsLastFrameOnce ==
    [][ /\ \A t \in Callers :
              (pc[t] = "rf_empty" /\ pc'[t] = "rf_pop") => ~Video_empty(frame)
        /\ \A t \in Callers :
              (pc[t] = "rf_pop" /\ pc'[t] = "idle") =>
                  /\ result'[t].val = frame
                  /\ Video_empty(frame')
                  /\ result'[t].val # NoneFrame => result'[t].val = nframes - 1
        /\ (ppc = "rf_empty" /\ ppc' = "rf_pop") => ~Video_empty(frame)
        /\ (ppc = "rf_pop" /\ ppc' = "notify") =>
                  /\ pframe' = frame
                  /\ pframe' # NoneFrame
                  /\ pframe' = nframes - 1
                  /\ Video_empty(frame')
        /\ ~Video_empty(frame') => frame' = nframes' - 1
        /\ Held("c1")' \cap Held("c2")' = {}
        /\ \A t \in Callers : frame' \notin Held(t)'
      ]_vars

\* C16 witness: of three frames stored, one read returned the first and
\* another the third; the second was overwritten unread.
C16_Witness ==
    /\ nframes = 3
    /\ Video_empty(frame)
    /\ \A t \in Callers : result[t].op = "read_frame" /\ result[t].err = NoError
    /\ result["c1"].val = 0
    /\ result["c2"].val = 2

\* the operations in progress on a mailbox
InProgress(box) == {r \in inop : r.box = box}

\* C17 as stated: on each mailbox at most one operation is in progress.
C17_OneOperationPerMailbox ==
    \A box \in Boxes : Cardinality(InProgress(box)) <= 1

\* C17 amended: at most one operation is in progress on the Command and on
\* the Video mailbox, and at most one store on the State mailbox; every
\* operation other than State.pop and State.empty holds its mailbox's lock
\* while in progress, and those two never hold it.
C17_LockedOperationsExclude ==
    /\ \A box \in {"Command", "Video"} : Cardinality(InProgress(box)) <= 1
    /\ Cardinality({r \in InProgress("State") : r.op = "recv"}) <= 1
    /\ \A r \in inop :
          IF r.box = "State" /\ r.op \in {"pop", "empty"}
          THEN lock[r.box] # r.th
          ELSE lock[r.box] = r.th
    /\ \A box \in Boxes : lock[box] # "free" => \E r \in InProgress(box) : r.th = lock[box]

\* C17 witness: a State.pop is in progress during a State.recv, while a
\* Command.pop holds the Command lock.
C17_Witness ==
    /\ OpRecord("state", "State", "recv") \in inop
    /\ OpRecord("c1", "State", "pop") \in inop
    /\ OpRecord("c2", "Command", "pop") \in inop
    /\ lock["State"] = "state"
    /\ lock["Command"] = "c2"

\* the keys of a datagram: the text before the first ':' of each token
\* that has one
KeysOf(data) ==
    LET toks == Split(data, ";")
    IN  {SubSeq(toks[i], 1, IndexOf(toks[i], ":") - 1) :
            i \in {j \in 1..Len(toks) : Contains(toks[j], ":")}}

\* the snapshots of the datagrams the listener can decode
Snapshots ==
    {State_decode(d).response : d \in {e \in SampleDatagrams : State_decode(e).err = NoError}}

\* C18: the snapshot is that of the last datagram decoded, whole: it has
\* exactly that datagram's keys, whatever was decoded before; and what a
\* telemetry read has returned is the empty mapping or the snapshot of one
\* datagram, never a mixture of two.
C18_SnapshotReplacedWhole ==
    /\ state_response = LatestSnapshot
    /\ last_decoded # NoData => DOMAIN state_response = KeysOf(last_decoded)
    /\ \A t \in Callers :
          (result[t].op = "state" /\ ~result[t].isnone) =>
              result[t].val \in Snapshots \cup {EmptyDict}

\* C18 witness: "a:1;b:2" was decoded and read, then "a:3;" was decoded:
\* the reader holds the old snapshot with key b, the mailbox the new one
\* without it.
C18_Witness ==
    /\ last_decoded = <<"a", ":", "3", ";">>
    /\ DOMAIN state_response = {<<"a">>}
    /\ result["c1"].op = "state"
    /\ ~result["c1"].isnone
    /\ DOMAIN result["c1"].val = {<<"a">>, <<"b">>}

\* C19: with a single calling thread, transmitting a command leaves the
\* mailbox as it was; a waiting send that found a reply there when it
\* transmitted never reaches the timeout test and ends by returning a reply
\* without error, its own reply possibly still to come; and a reply that
\* comes when the listener runs is stored for whoever takes next.
C19_StaleReplyAnswersNextSend ==
    [][ /\ sent' # sent =>
              /\ response' = response
              /\ cmd_pending' = cmd_pending
        /\ \A t \in Callers :
              (InSend(t)' /\ ~empty_at_send'[t]) => pc'[t] # "sc_time"
        /\ \A t \in Callers :
              (InSend(t) /\ pc'[t] = "idle" /\ ~empty_at_send[t]) =>
                  /\ result'[t].err = NoError
                  /\ result'[t].val \in {Ok, Err}
        /\ (outstanding' # outstanding /\ sent' = sent /\ "response" \in alive') =>
              /\ response' \in {Ok, Err}
              /\ cmd_pending' = response'
      ]_vars

\* C19 witness: "up" was sent fire-and-forget and answered; the "takeoff"
\* sent after it has returned "ok" without error while its own reply is
\* still to come.
C19_Witness ==
    /\ sent = <<"command", "up", "takeoff">>
    /\ outstanding = {3}
    /\ Idle("c1")
    /\ result["c1"].op = "send_command"
    /\ result["c1"].with_return
    /\ result["c1"].err = NoError
    /\ result["c1"].val = Ok
    /\ Command_empty(response)

\* C20: in send_command and in read_frame (the frame pump's included) the
\* emptiness test and the take are different steps, and the take returns
\* whatever the slot holds at that moment, None included, without raising.
C20_TestAndTakeAreSeparate ==
    [][ /\ \A t \in Callers :
              /\ pc[t] = "sc_empty" => pc'[t] \in {"sc_empty", "sc_time", "sc_pop"}
              /\ pc[t] = "rf_empty" => pc'[t] \in {"rf_empty", "rf_pop"}
              /\ (pc[t] = "sc_empty" /\ pc'[t] # pc[t]) => response' = response
              /\ (pc[t] = "rf_empty" /\ pc'[t] # pc[t]) => frame' = frame
              /\ (pc[t] = "sc_pop" /\ pc'[t] = "idle") =>
                    /\ result'[t].err = NoError
                    /\ result'[t].val = response
              /\ (pc[t] = "rf_pop" /\ pc'[t] = "idle") =>
                    /\ result'[t].err = NoError
                    /\ result'[t].val = frame
        /\ ppc = "rf_empty" => ppc' \in {"rf_empty", "rf_pop"}
        /\ (ppc = "rf_pop" /\ ppc' = "notify") => pframe' = frame
      ]_vars

\* C20 witness: of two overlapping waiting sends, one has returned the
\* reply and the other has returned None without error.
C20_Witness ==
    /\ sent = <<"command", "takeoff", "takeoff">>
    /\ \A t \in Callers :
          /\ Idle(t)
          /\ result[t].op = "send_command"
          /\ result[t].with_return
          /\ result[t].err = NoError
    /\ result["c1"].val = NoneText
    /\ result["c2"].val = Ok

=============================================================================
